---- MODULE Spec2Model ----
(***************************************************************************)
(* Model of src/main.c: a harness that opens a media file, opens a         *)
(* decoder (optionally bound to a Vulkan device), decodes the same packet  *)
(* max_frames times, uploads software frames and optionally re-encodes.    *)
(*                                                                         *)
(* Every external library call is a step whose result is chosen            *)
(* nondeterministically (success, or a negative error code).  One action   *)
(* models one call together with the check that follows it in main.        *)
(*                                                                         *)
(* Environment assumptions (library behaviour, not code of main.c):        *)
(*   - a NULL pointer dereference ends the process by a signal;            *)
(*   - reading argv[k] for k > argc reads whatever follows the argument    *)
(*     vector (on the usual process layout the environment strings), so    *)
(*     the comparison may crash, compare equal or compare unequal;         *)
(*   - av_frame_alloc, av_packet_alloc for the output packet and           *)
(*     sws_alloc_context (lines 131, 195-199) succeed;                     *)
(*   - the decoder keeps the pix_fmt / sw_pix_fmt it reported at the probe *)
(*     (the same packet is decoded every time), and reports an accelerated *)
(*     pix_fmt only when it was given a device;                            *)
(*   - after a successful probe in_avctx->pix_fmt is a valid format, so    *)
(*     av_pix_fmt_desc_get does not return NULL;                           *)
(*   - av_frame_get_buffer rejects a frame whose format is NONE.           *)
(***************************************************************************)
EXTENDS Integers, Sequences, FiniteSets, TLC

VARIABLES
    argc, arg3, arg4,        \* the argument vector: argc, argv[3], argv[4]
    pc,                      \* position in main
    err,                     \* int err
    status,                  \* process exit status, -1 while running
    printed,                 \* last error message printed, "none" if none
    in_avctx,                \* the decoder context
    hw_dev_ref,              \* the Vulkan device reference
    pkt,                     \* the input packet
    frame, temp, hw_frame,   \* decoded, conversion and hardware frames
    out_pkt,                 \* the encoder's output packet
    src,                     \* AVFrame *src of the loop body
    desc_hwaccel,            \* desc->flags & AV_PIX_FMT_FLAG_HWACCEL
    hwfc_ref,                \* the frame context reference
    hwfc_sw_format,          \* hwfc->sw_format
    out_avctx,               \* the encoder context
    timer,                   \* whether time_start has been taken
    i,                       \* loop counter
    banner,                  \* the banner printed before the loop
    frames_done,             \* last number printed by "Frames done"
    time_printed,            \* number of "Time = " lines printed
    \* history of the external calls
    failed,                  \* first library step that failed, "none" if none
    after,                   \* a library step was called after a failed one
    read_calls,              \* calls of av_read_frame
    probe_calls,             \* calls of decode_frame before the loop
    loop_decodes,            \* calls of decode_frame in the loop
    submitted,               \* packet contents given to avcodec_send_packet
    hw_allocs,               \* calls of av_hwframe_get_buffer
    transfers,               \* calls of av_hwframe_transfer_data
    upload_src_fmt,          \* format of the frame given to the transfer
                             \* of this iteration, "-" if none
    sent,                    \* avcodec_send_frame called in this iteration
    crash_site,              \* where the process was killed, "none" if not
    calls                    \* calls of remap_pixfmt (SpecRemap only)

vars == <<argc, arg3, arg4, pc, err, status, printed, in_avctx, hw_dev_ref,
          pkt, frame, temp, hw_frame, out_pkt, src, desc_hwaccel, hwfc_ref,
          hwfc_sw_format, out_avctx, timer, i, banner, frames_done,
          time_printed, failed, after, read_calls, probe_calls,
          loop_decodes, submitted, hw_allocs, transfers, upload_src_fmt,
          sent, crash_site, calls>>

----------------------------------------------------------------------------
(* Program constants and bounds *)

max_frames == 1000

MaxArgc == 5

MaxCalls == 2

\* Pixel formats: the ones remap_pixfmt names, and some it does not.
PixFmts == {"NONE", "YUV420P", "NV12", "GBRAP16", "RGBA64", "RGB48LE",
            "RGB48BE", "GBRP16", "BGR0", "RGB0", "YUV444P", "VULKAN"}

\* Error codes a library call may return (AVERROR(EINVAL), AVERROR_EOF).
ErrCodes == {-22, -541478725}

\* Formats the decoder may report in the runs explored.
DecSwFmts == {"YUV420P", "RGB48LE"}
DecSwPixFmts == {"YUV420P", "RGB48LE", "NONE"}
FrameFmts == {"YUV420P", "NV12", "GBRP16"}

----------------------------------------------------------------------------
(* Pure functions *)

\* remap_pixfmt without its "case AV_PIX_FMT_RGB48BE:" label
remap_pixfmt_NoRGB48BE(fmt) ==
    CASE fmt = "YUV420P" -> "NV12"
      [] fmt = "GBRAP16" -> "RGBA64"
      [] fmt = "RGB48LE" -> "GBRP16"
      [] fmt = "BGR0"    -> "RGB0"
      [] OTHER           -> fmt

remap_pixfmt(fmt) ==
    CASE fmt = "YUV420P" -> "NV12"
      [] fmt = "GBRAP16" -> "RGBA64"
      [] fmt = "RGB48LE" -> "GBRP16"
      [] fmt = "RGB48BE" -> "GBRP16"
      [] fmt = "BGR0"    -> "RGB0"
      [] OTHER           -> fmt

\* av_pix_fmt_desc_get(fmt)->flags & AV_PIX_FMT_FLAG_HWACCEL
IsHwAccel(fmt) == fmt = "VULKAN"

\* AVERROR(e) is -(e); the exit status keeps the low 8 bits of main's result.
AVERROR(e) == 0 - e

ExitStatus(ret) == ret % 256

EmptyFrame == [ref |-> FALSE, format |-> "NONE", hw |-> FALSE]

----------------------------------------------------------------------------
(* Helpers shared by the steps of main *)

\* The frame AVFrame *src points to.
SrcFrame ==
    CASE src = "temp"     -> temp
      [] src = "hw_frame" -> hw_frame
      [] OTHER            -> frame

\* A library step of the sequence is being called.
Called == after' = (after \/ failed # "none")

\* The step named s reports a failure.
Fails(s) == failed' = IF failed = "none" THEN s ELSE failed

\* A call returned e >= 0 and main goes on at next.
Ok(next, e) ==
    /\ pc' = next
    /\ err' = e
    /\ UNCHANGED <<status, printed, crash_site>>

\* A call returned e < 0: print msg, return AVERROR(err).
ErrExit(msg, e) ==
    /\ pc' = "exit"
    /\ err' = e
    /\ printed' = msg
    /\ status' = ExitStatus(AVERROR(e))
    /\ UNCHANGED crash_site

\* return ENOMEM, with nothing printed.
NoMemExit ==
    /\ pc' = "exit"
    /\ status' = ExitStatus(12)
    /\ UNCHANGED <<err, printed, crash_site>>

\* A NULL pointer is dereferenced at site: the process is killed (SIGSEGV).
Crash(site) ==
    /\ pc' = "crashed"
    /\ status' = 139
    /\ crash_site' = site
    /\ UNCHANGED <<err, printed>>

\* !strcmp(argv[k], "1"): the outcomes of the comparison, "crash" included.
StrcmpOne(k, arg) ==
    IF k < argc THEN {IF arg = "1" THEN "equal" ELSE "unequal"}
    ELSE IF k = argc THEN {"crash"}
    ELSE {"crash", "equal", "unequal"}

\* decode_frame(in_avctx, pkt, frame): the packet goes to avcodec_send_packet.
decode_frame == submitted' = submitted \cup {pkt}

\* The loop test with <= for <
LoopTest_Inclusive(n) == n <= max_frames

\* for (...; i < max_frames; ...)
LoopTest(n) == n < max_frames

\* The upload made unconditional
NeedsUpload_Always == TRUE

\* if (!(desc->flags & AV_PIX_FMT_FLAG_HWACCEL)) of the loop body
NeedsUpload == ~desc_hwaccel

\* The three av_frame_unref calls with the one for temp left out
UnrefFrames_KeepTemp ==
    /\ hw_frame' = EmptyFrame
    /\ frame' = EmptyFrame
    /\ UNCHANGED temp

\* av_frame_unref(temp); av_frame_unref(hw_frame); av_frame_unref(frame);
UnrefFrames ==
    /\ temp' = EmptyFrame
    /\ hw_frame' = EmptyFrame
    /\ frame' = EmptyFrame

\* av_packet_unref called on the input packet instead of the output packet
UnrefPacket_Input ==
    /\ pkt' = "empty"
    /\ UNCHANGED out_pkt

\* av_packet_unref(out_pkt);
UnrefPacket ==
    /\ out_pkt' = "empty"
    /\ UNCHANGED pkt

argv     == <<argc, arg3, arg4>>
objects  == <<in_avctx, hw_dev_ref, pkt, frame, temp, hw_frame, out_pkt, src,
              desc_hwaccel, hwfc_ref, hwfc_sw_format, out_avctx>>
progress == <<timer, i, banner, frames_done, time_printed>>
counts   == <<read_calls, probe_calls, loop_decodes, submitted, hw_allocs,
              transfers, upload_src_fmt, sent>>

----------------------------------------------------------------------------
(* Initial state: main is entered with an argument vector; nothing has been
   allocated, called or printed yet *)

Fresh ==
    /\ err = 0
    /\ status = -1
    /\ printed = "none"
    /\ in_avctx = [st |-> "unalloc", hw_device_ctx |-> FALSE,
                   pix_fmt |-> "NONE", sw_pix_fmt |-> "NONE",
                   hw_frames_ctx |-> FALSE]
    /\ hw_dev_ref = "unset"
    /\ pkt = "unalloc"
    /\ frame = EmptyFrame
    /\ temp = EmptyFrame
    /\ hw_frame = EmptyFrame
    /\ out_pkt = "unalloc"
    /\ src = "none"
    /\ desc_hwaccel = FALSE
    /\ hwfc_ref = "NULL"
    /\ hwfc_sw_format = "NONE"
    /\ out_avctx = [st |-> "unalloc", sw_pix_fmt |-> "NONE",
                    hw_frames_ctx |-> "NULL"]
    /\ timer = FALSE
    /\ i = 0
    /\ banner = "none"
    /\ frames_done = 0
    /\ time_printed = 0
    /\ failed = "none"
    /\ after = FALSE
    /\ read_calls = 0
    /\ probe_calls = 0
    /\ loop_decodes = 0
    /\ submitted = {}
    /\ hw_allocs = 0
    /\ transfers = 0
    /\ upload_src_fmt = "-"
    /\ sent = FALSE
    /\ crash_site = "none"
    /\ calls = <<>>

Init ==
    /\ \E k \in 0..(MaxArgc - 2) : argc = MaxArgc - k
    /\ arg3 \in (IF argc > 3 THEN {"0", "1"} ELSE {"absent"})
    /\ arg4 \in (IF argc > 4 THEN {"0", "1"} ELSE {"absent"})
    /\ pc = "open_input"
    /\ Fresh

----------------------------------------------------------------------------
(* Setup: lines 74-137 *)

\* avformat_open_input
OpenInput ==
    /\ pc = "open_input"
    /\ Called
    /\ \/ Ok("find_stream", 0) /\ UNCHANGED failed
       \/ \E e \in ErrCodes :
            ErrExit("Error opening input file", e) /\ Fails("open_input")
    /\ UNCHANGED <<argv, objects, progress, counts, calls>>

\* av_find_best_stream: the stream index is also left in err
FindStream ==
    /\ pc = "find_stream"
    /\ Called
    /\ \/ \E sid \in {0, 1} : Ok("alloc_decoder", sid) /\ UNCHANGED failed
       \/ \E e \in ErrCodes :
            ErrExit("Error finding stream for file", e) /\ Fails("find_stream")
    /\ UNCHANGED <<argv, objects, progress, counts, calls>>

\* avcodec_alloc_context3: the result is not tested, err still holds sid
AllocDecoder ==
    /\ pc = "alloc_decoder"
    /\ Called
    /\ \E p \in {"alloc", "null"} :
         /\ in_avctx' = [in_avctx EXCEPT !.st = p]
         /\ IF p = "null" THEN Fails("alloc_decoder") ELSE UNCHANGED failed
    /\ IF err < 0
         THEN ErrExit("Error opening decoder", err)
         ELSE Ok("params", err)
    /\ UNCHANGED <<argv, hw_dev_ref, pkt, frame, temp, hw_frame, out_pkt, src,
                   desc_hwaccel, hwfc_ref, hwfc_sw_format, out_avctx,
                   progress, counts, calls>>

\* avcodec_parameters_to_context
ParamsToContext ==
    /\ pc = "params"
    /\ Called
    /\ IF in_avctx.st = "null"
         THEN Crash("params") /\ UNCHANGED failed
         ELSE \/ Ok("create_device", 0) /\ UNCHANGED failed
              \/ \E e \in ErrCodes :
                   ErrExit("Error using codec parameters", e) /\ Fails("params")
    /\ UNCHANGED <<argv, objects, progress, counts, calls>>

\* av_hwdevice_ctx_create
CreateDevice ==
    /\ pc = "create_device"
    /\ Called
    /\ \/ Ok("bind_device", 0) /\ hw_dev_ref' = "dev" /\ UNCHANGED failed
       \/ \E e \in ErrCodes :
            /\ ErrExit("Error creating device", e)
            /\ Fails("create_device")
            /\ UNCHANGED hw_dev_ref
    /\ UNCHANGED <<argv, in_avctx, pkt, frame, temp, hw_frame, out_pkt, src,
                   desc_hwaccel, hwfc_ref, hwfc_sw_format, out_avctx,
                   progress, counts, calls>>

\* if (!strcmp(argv[3], "1")) in_avctx->hw_device_ctx = hw_dev_ref;
BindDevice ==
    /\ pc = "bind_device"
    /\ \E r \in StrcmpOne(3, arg3) :
         IF r = "crash"
           THEN Crash("strcmp3") /\ UNCHANGED in_avctx
           ELSE /\ Ok("open_decoder", err)
                /\ in_avctx' = [in_avctx EXCEPT !.hw_device_ctx = (r = "equal")]
    /\ UNCHANGED <<argv, hw_dev_ref, pkt, frame, temp, hw_frame, out_pkt, src,
                   desc_hwaccel, hwfc_ref, hwfc_sw_format, out_avctx,
                   progress, counts, failed, after, calls>>

\* avcodec_open2 of the decoder
OpenDecoder ==
    /\ pc = "open_decoder"
    /\ Called
    /\ \/ /\ Ok("alloc_packet", 0)
          /\ in_avctx' = [in_avctx EXCEPT !.st = "open"]
          /\ UNCHANGED failed
       \/ \E e \in ErrCodes :
            /\ ErrExit("Error opening decoder", e)
            /\ Fails("open_decoder")
            /\ UNCHANGED in_avctx
    /\ UNCHANGED <<argv, hw_dev_ref, pkt, frame, temp, hw_frame, out_pkt, src,
                   desc_hwaccel, hwfc_ref, hwfc_sw_format, out_avctx,
                   progress, counts, calls>>

\* av_packet_alloc
AllocPacket ==
    /\ pc = "alloc_packet"
    /\ Called
    /\ \/ Ok("read_frame", err) /\ pkt' = "empty" /\ UNCHANGED failed
       \/ NoMemExit /\ pkt' = "null" /\ Fails("alloc_packet")
    /\ UNCHANGED <<argv, in_avctx, hw_dev_ref, frame, temp, hw_frame, out_pkt,
                   src, desc_hwaccel, hwfc_ref, hwfc_sw_format, out_avctx,
                   progress, counts, calls>>

\* av_read_frame
ReadFrame ==
    /\ pc = "read_frame"
    /\ Called
    /\ read_calls' = read_calls + 1
    /\ \/ Ok("probe", 0) /\ pkt' = "data" /\ UNCHANGED failed
       \/ \E e \in ErrCodes :
            /\ ErrExit("Error reading packet", e)
            /\ Fails("read_frame")
            /\ UNCHANGED pkt
    /\ UNCHANGED <<argv, in_avctx, hw_dev_ref, frame, temp, hw_frame, out_pkt,
                   src, desc_hwaccel, hwfc_ref, hwfc_sw_format, out_avctx,
                   progress, probe_calls, loop_decodes, submitted, hw_allocs,
                   transfers, upload_src_fmt, sent, calls>>

\* The probe: decode_frame, then av_frame_unref(frame).  A successful decode
\* leaves the decoder's pix_fmt, sw_pix_fmt and hw_frames_ctx set.
Probe ==
    /\ pc = "probe"
    /\ Called
    /\ decode_frame
    /\ probe_calls' = probe_calls + 1
    /\ \/ /\ Ok("frame_ctx", 0)
          /\ \E pf \in (IF in_avctx.hw_device_ctx
                          THEN DecSwFmts \cup {"VULKAN"} ELSE DecSwFmts),
                sf \in DecSwPixFmts :
               in_avctx' = [in_avctx EXCEPT !.pix_fmt = pf,
                                            !.sw_pix_fmt = sf,
                                            !.hw_frames_ctx = IsHwAccel(pf)]
          /\ frame' = EmptyFrame
          /\ UNCHANGED failed
       \/ \E e \in ErrCodes :
            /\ ErrExit("Error decoding frame", e)
            /\ Fails("probe_decode")
            /\ UNCHANGED <<in_avctx, frame>>
    /\ UNCHANGED <<argv, hw_dev_ref, pkt, temp, hw_frame, out_pkt, src,
                   desc_hwaccel, hwfc_ref, hwfc_sw_format, out_avctx,
                   progress, read_calls, loop_decodes, hw_allocs, transfers,
                   upload_src_fmt, sent, calls>>

----------------------------------------------------------------------------
(* Frame context and encoder: lines 139-190 *)

\* desc = av_pix_fmt_desc_get(in_avctx->pix_fmt); software decoding allocates
\* a frame context, hardware decoding takes the decoder's.
FrameCtxAlloc ==
    /\ pc = "frame_ctx"
    /\ desc_hwaccel' = IsHwAccel(in_avctx.pix_fmt)
    /\ IF ~IsHwAccel(in_avctx.pix_fmt)
         THEN /\ Called
              /\ \/ /\ Ok("frame_ctx_init", err)
                    /\ hwfc_ref' = "new"
                    /\ UNCHANGED failed
                 \/ NoMemExit /\ Fails("frame_ctx_alloc") /\ UNCHANGED hwfc_ref
         ELSE /\ Ok("alloc_encoder", err)
              /\ hwfc_ref' = "decoder"
              /\ UNCHANGED <<failed, after>>
    /\ UNCHANGED <<argv, in_avctx, hw_dev_ref, pkt, frame, temp, hw_frame,
                   out_pkt, src, hwfc_sw_format, out_avctx, progress, counts,
                   calls>>

\* hwfc->sw_format = remap_pixfmt(in_avctx->pix_fmt); av_hwframe_ctx_init
FrameCtxInit ==
    /\ pc = "frame_ctx_init"
    /\ Called
    /\ hwfc_sw_format' = remap_pixfmt(in_avctx.pix_fmt)
    /\ \/ Ok("alloc_encoder", 0) /\ UNCHANGED failed
       \/ \E e \in ErrCodes :
            /\ ErrExit("Error creating frames context", e)
            /\ Fails("frame_ctx_init")
    /\ UNCHANGED <<argv, in_avctx, hw_dev_ref, pkt, frame, temp, hw_frame,
                   out_pkt, src, desc_hwaccel, hwfc_ref, out_avctx, progress,
                   counts, calls>>

\* avcodec_alloc_context3 for the encoder: the result is not tested
AllocEncoder ==
    /\ pc = "alloc_encoder"
    /\ Called
    /\ \E p \in {"alloc", "null"} :
         /\ out_avctx' = [out_avctx EXCEPT !.st = p]
         /\ IF p = "null" THEN Fails("alloc_encoder") ELSE UNCHANGED failed
    /\ IF err < 0
         THEN ErrExit("Error opening encoder", err)
         ELSE Ok("open_encoder", err)
    /\ UNCHANGED <<argv, in_avctx, hw_dev_ref, pkt, frame, temp, hw_frame,
                   out_pkt, src, desc_hwaccel, hwfc_ref, hwfc_sw_format,
                   progress, counts, calls>>

\* The encoder's fields are set, then avcodec_open2
OpenEncoder ==
    /\ pc = "open_encoder"
    /\ IF out_avctx.st = "null"
         THEN Crash("encoder_setup") /\ UNCHANGED <<out_avctx, failed, after>>
         ELSE /\ Called
              /\ \/ /\ Ok("loop_start", 0)
                    /\ out_avctx' =
                         [st |-> "open",
                          sw_pix_fmt |-> remap_pixfmt(in_avctx.sw_pix_fmt),
                          hw_frames_ctx |-> hwfc_ref]
                    /\ UNCHANGED failed
                 \/ \E e \in ErrCodes :
                      /\ ErrExit("Error initializing encoder", e)
                      /\ out_avctx' =
                           [st |-> "alloc",
                            sw_pix_fmt |-> remap_pixfmt(in_avctx.sw_pix_fmt),
                            hw_frames_ctx |-> hwfc_ref]
                      /\ Fails("open_encoder")
    /\ UNCHANGED <<argv, in_avctx, hw_dev_ref, pkt, frame, temp, hw_frame,
                   out_pkt, src, desc_hwaccel, hwfc_ref, hwfc_sw_format,
                   progress, counts, calls>>

----------------------------------------------------------------------------
(* The loop: lines 192-277 *)

\* time_start, the per-iteration objects, the banner, and the first loop test
LoopStart ==
    /\ pc = "loop_start"
    /\ timer' = TRUE
    /\ out_pkt' = "empty"
    /\ hw_frame' = EmptyFrame
    /\ temp' = EmptyFrame
    /\ banner' = IF argc > 4 /\ arg4 = "1"
                   THEN "Decoding and encoding" ELSE "Decoding"
    /\ i' = 0
    /\ pc' = IF LoopTest(0) THEN "loop_decode" ELSE "finish"
    /\ UNCHANGED <<argv, err, status, printed, crash_site, in_avctx,
                   hw_dev_ref, pkt, frame, src, desc_hwaccel, hwfc_ref,
                   hwfc_sw_format, out_avctx, frames_done, time_printed,
                   failed, after, counts, calls>>

\* err = decode_frame(in_avctx, pkt, frame); src = frame
LoopDecode ==
    /\ pc = "loop_decode"
    /\ Called
    /\ decode_frame
    /\ loop_decodes' = loop_decodes + 1
    /\ \/ /\ Ok("convert", 0)
          /\ IF in_avctx.hw_frames_ctx
               THEN frame' = [ref |-> TRUE, format |-> in_avctx.pix_fmt,
                              hw |-> TRUE]
               ELSE \E f \in FrameFmts :
                      frame' = [ref |-> TRUE, format |-> f, hw |-> FALSE]
          /\ src' = "frame"
          /\ UNCHANGED failed
       \/ \E e \in ErrCodes :
            /\ ErrExit("Error decoding frame", e)
            /\ Fails("loop_decode")
            /\ UNCHANGED <<frame, src>>
    /\ UNCHANGED <<argv, in_avctx, hw_dev_ref, pkt, temp, hw_frame, out_pkt,
                   desc_hwaccel, hwfc_ref, hwfc_sw_format, out_avctx,
                   progress, read_calls, probe_calls, hw_allocs, transfers,
                   upload_src_fmt, sent, calls>>

\* A software frame whose format is not remap_pixfmt(sw_pix_fmt) is converted
\* into temp: av_frame_get_buffer, sws_scale_frame, src = temp
Convert ==
    /\ pc = "convert"
    /\ IF ~frame.hw /\ frame.format # remap_pixfmt(in_avctx.sw_pix_fmt)
         THEN LET fmt == remap_pixfmt(in_avctx.sw_pix_fmt)
              IN  /\ Called
                  /\ \/ /\ fmt # "NONE"
                        /\ Ok("upload", 0)
                        /\ temp' = [ref |-> TRUE, format |-> fmt, hw |-> FALSE]
                        /\ src' = "temp"
                        /\ UNCHANGED failed
                     \/ \E e \in ErrCodes :
                          /\ ErrExit("Error allocating temporary frame", e)
                          /\ temp' = [ref |-> FALSE, format |-> fmt,
                                      hw |-> FALSE]
                          /\ Fails("temp_alloc")
                          /\ UNCHANGED src
                     \/ \E e \in ErrCodes :
                          /\ fmt # "NONE"
                          /\ ErrExit("Error scaling frame", e)
                          /\ temp' = [ref |-> TRUE, format |-> fmt,
                                      hw |-> FALSE]
                          /\ Fails("scale")
                          /\ UNCHANGED src
         ELSE /\ Ok("upload", err)
              /\ UNCHANGED <<temp, src, failed, after>>
    /\ UNCHANGED <<argv, in_avctx, hw_dev_ref, pkt, frame, hw_frame, out_pkt,
                   desc_hwaccel, hwfc_ref, hwfc_sw_format, out_avctx,
                   progress, counts, calls>>

\* Software decoding: av_hwframe_get_buffer, av_hwframe_transfer_data,
\* src = hw_frame
Upload ==
    /\ pc = "upload"
    /\ IF NeedsUpload
         THEN /\ Called
              /\ hw_allocs' = hw_allocs + 1
              /\ \/ /\ Ok("encode", 0)
                    /\ hw_frame' = [ref |-> TRUE, format |-> "VULKAN",
                                    hw |-> TRUE]
                    /\ transfers' = transfers + 1
                    /\ upload_src_fmt' = SrcFrame.format
                    /\ src' = "hw_frame"
                    /\ UNCHANGED failed
                 \/ \E e \in ErrCodes :
                      /\ ErrExit("Error allocating hardware frame", e)
                      /\ Fails("hwframe_alloc")
                      /\ UNCHANGED <<hw_frame, transfers, upload_src_fmt, src>>
                 \/ \E e \in ErrCodes :
                      /\ ErrExit("Error uploading frame", e)
                      /\ hw_frame' = [ref |-> TRUE, format |-> "VULKAN",
                                      hw |-> TRUE]
                      /\ transfers' = transfers + 1
                      /\ upload_src_fmt' = SrcFrame.format
                      /\ Fails("upload")
                      /\ UNCHANGED src
         ELSE /\ Ok("encode", err)
              /\ UNCHANGED <<hw_frame, hw_allocs, transfers, upload_src_fmt,
                             src, failed, after>>
    /\ UNCHANGED <<argv, in_avctx, hw_dev_ref, pkt, frame, temp, out_pkt,
                   desc_hwaccel, hwfc_ref, hwfc_sw_format, out_avctx,
                   progress, read_calls, probe_calls, loop_decodes, submitted,
                   sent, calls>>

\* if (argc > 3 && !strcmp(argv[4], "1")): avcodec_send_frame, then
\* avcodec_receive_packet whose result is not assigned to err
Encode ==
    /\ pc = "encode"
    /\ IF argc > 3
         THEN \E r \in StrcmpOne(4, arg4) :
                CASE r = "crash" ->
                       /\ Crash("strcmp4")
                       /\ UNCHANGED <<out_pkt, sent, failed, after>>
                  [] r = "unequal" ->
                       /\ Ok("final", err)
                       /\ UNCHANGED <<out_pkt, sent, failed, after>>
                  [] r = "equal" ->
                       /\ Called
                       /\ sent' = TRUE
                       /\ \/ /\ Ok("final", 0)
                             /\ \/ out_pkt' = "data" /\ UNCHANGED failed
                                \/ UNCHANGED out_pkt /\ Fails("receive_packet")
                          \/ \E e \in ErrCodes :
                               /\ ErrExit("Error sending frame for encoding", e)
                               /\ Fails("send_frame")
                               /\ UNCHANGED out_pkt
         ELSE /\ Ok("final", err)
              /\ UNCHANGED <<out_pkt, sent, failed, after>>
    /\ UNCHANGED <<argv, in_avctx, hw_dev_ref, pkt, frame, temp, hw_frame, src,
                   desc_hwaccel, hwfc_ref, hwfc_sw_format, out_avctx,
                   progress, read_calls, probe_calls, loop_decodes, submitted,
                   hw_allocs, transfers, upload_src_fmt, calls>>

\* "Frames done", the four unrefs, i++ and the loop test
Final ==
    /\ pc = "final"
    /\ frames_done' = i + 1
    /\ UnrefFrames
    /\ UnrefPacket
    /\ src' = "none"
    /\ upload_src_fmt' = "-"
    /\ sent' = FALSE
    /\ i' = i + 1
    /\ pc' = IF LoopTest(i + 1) THEN "loop_decode" ELSE "finish"
    /\ UNCHANGED <<argv, err, status, printed, crash_site, in_avctx,
                   hw_dev_ref, desc_hwaccel, hwfc_ref, hwfc_sw_format,
                   out_avctx, timer, banner, time_printed, failed, after,
                   read_calls, probe_calls, loop_decodes, submitted,
                   hw_allocs, transfers, calls>>

\* The elapsed time is printed and main returns
Finish ==
    /\ pc = "finish"
    /\ time_printed' = time_printed + 1
    /\ pc' = "done"
    /\ status' = 0
    /\ UNCHANGED <<argv, err, printed, crash_site, objects, timer, i, banner,
                   frames_done, failed, after, counts, calls>>

----------------------------------------------------------------------------
(* The program *)

Next ==
    \/ OpenInput
    \/ FindStream
    \/ AllocDecoder
    \/ ParamsToContext
    \/ CreateDevice
    \/ BindDevice
    \/ OpenDecoder
    \/ AllocPacket
    \/ ReadFrame
    \/ Probe
    \/ FrameCtxAlloc
    \/ FrameCtxInit
    \/ AllocEncoder
    \/ OpenEncoder
    \/ LoopStart
    \/ LoopDecode
    \/ Convert
    \/ Upload
    \/ Encode
    \/ Final
    \/ Finish

Spec == Init /\ [][Next]_vars

----------------------------------------------------------------------------
(* remap_pixfmt on its own: MaxCalls calls on arbitrary pixel formats *)

InitRemap ==
    /\ argc = 2
    /\ arg3 = "absent"
    /\ arg4 = "absent"
    /\ pc = "remap"
    /\ Fresh

RemapCall ==
    /\ pc = "remap"
    /\ Len(calls) < MaxCalls
    /\ \E f \in PixFmts :
         calls' = Append(calls, [arg |-> f, res |-> remap_pixfmt(f)])
    /\ UNCHANGED <<argv, pc, err, status, printed, crash_site, objects,
                   progress, failed, after, counts>>

NextRemap == RemapCall

SpecRemap == InitRemap /\ [][NextRemap]_vars

----------------------------------------------------------------------------
(* Properties *)

Terminated == pc \in {"exit", "crashed", "done"}

EncodeRequested == argc > 4 /\ arg4 = "1"

BindRequested == argc > 3 /\ arg3 = "1"

\* C1: whenever a library step of main fails, the program prints an error
\* message and exits with a non-zero status, and no later step of the
\* sequence is called after the failing one.
C1_FailStop ==
    failed # "none" =>
        /\ pc = "exit"
        /\ printed # "none"
        /\ status > 0
        /\ ~after

\* C2: the loop calls decode_frame at most max_frames times, and a run that
\* ends without any library step having failed has called it exactly
\* max_frames times, after exactly one probe decode.
C2_BoundedDecodes ==
    /\ loop_decodes <= max_frames
    /\ (Terminated /\ failed = "none") =>
           (loop_decodes = max_frames /\ probe_calls = 1)

\* C3: in each iteration the frame is sent to the encoder if and only if a
\* fourth argument is present and equals "1"; for every other argument
\* vector, three arguments included, the iteration goes on decode-only, and
\* the banner says which of the two the loop does.
C3_EncodeIffArg4 ==
    /\ crash_site # "strcmp4"
    /\ sent => EncodeRequested
    /\ pc = "final" => (sent <=> EncodeRequested)
    /\ banner # "none" =>
           (banner = "Decoding and encoding" <=> EncodeRequested)

\* C4: with a software pixel format after the probe a new frame context is
\* allocated and initialised and every iteration allocates a hardware frame
\* from it and transfers the source frame into it; with an accelerated pixel
\* format the decoder's own frame context is used and no hardware frame is
\* ever allocated or transferred.
C4_UploadIffSoftware ==
    /\ hwfc_ref # "NULL" =>
           /\ desc_hwaccel <=> IsHwAccel(in_avctx.pix_fmt)
           /\ hwfc_ref = "new" <=> ~desc_hwaccel
           /\ hwfc_ref = "decoder" <=> desc_hwaccel
    /\ desc_hwaccel =>
           /\ hw_allocs = 0
           /\ transfers = 0
           /\ ~hw_frame.ref
           /\ upload_src_fmt = "-"
    /\ (~desc_hwaccel /\ pc \in {"loop_decode", "convert", "upload", "finish"})
           => (hw_allocs = i /\ transfers = i)
    /\ (~desc_hwaccel /\ pc \in {"encode", "final"})
           => /\ hw_allocs = i + 1
              /\ transfers = i + 1
              /\ hw_frame.ref
              /\ upload_src_fmt # "-"
    /\ (~desc_hwaccel /\ pc = "done")
           => (hw_allocs = max_frames /\ transfers = max_frames)

C4_Witness ==
    /\ pc = "done"
    /\ hwfc_ref = "new"
    /\ transfers = max_frames

\* C5: the decoder is bound to the device exactly when the third argument
\* equals "1", and the device exists whenever the decoder is about to be
\* opened.
C5_BoundIffArg3 ==
    /\ in_avctx.hw_device_ctx => BindRequested
    /\ pc = "open_decoder" =>
           /\ in_avctx.hw_device_ctx <=> BindRequested
           /\ hw_dev_ref = "dev"

\* C6: remap_pixfmt returns NV12 for YUV420P, RGBA64 for GBRAP16, GBRP16 for
\* RGB48LE and RGB48BE, RGB0 for BGR0 and its argument for every other
\* format; two calls on the same argument return the same result.
C6_RemapTable ==
    /\ \A k \in 1..Len(calls) :
         LET a == calls[k].arg
             r == calls[k].res
         IN  /\ a = "YUV420P" => r = "NV12"
             /\ a = "GBRAP16" => r = "RGBA64"
             /\ a \in {"RGB48LE", "RGB48BE"} => r = "GBRP16"
             /\ a = "BGR0" => r = "RGB0"
             /\ a \notin {"YUV420P", "GBRAP16", "RGB48LE", "RGB48BE", "BGR0"}
                    => r = a
    /\ \A j, k \in 1..Len(calls) :
         calls[j].arg = calls[k].arg => calls[j].res = calls[k].res

C6_Witness ==
    /\ Len(calls) = 2
    /\ calls[1] = [arg |-> "RGB48BE", res |-> "GBRP16"]
    /\ calls[2] = [arg |-> "YUV444P", res |-> "YUV444P"]

C8_UploadFormat ==
    upload_src_fmt # "-" => upload_src_fmt = hwfc_sw_format

\* C9: av_read_frame is called at most once and before any decode; the
\* packet it filled is never changed afterwards, and it is the packet every
\* decode_frame call submits, the probe's and the loop's alike.
C9_OnePacket ==
    /\ read_calls <= 1
    /\ pc \in {"open_input", "find_stream", "alloc_decoder", "params",
               "create_device", "bind_device", "open_decoder",
               "alloc_packet", "read_frame"}
           => (read_calls = 0 /\ probe_calls = 0 /\ loop_decodes = 0)
    /\ probe_calls + loop_decodes > 0 =>
           /\ read_calls = 1
           /\ pkt = "data"
           /\ submitted = {"data"}
    /\ (read_calls = 1 /\ failed # "read_frame") => pkt = "data"

C9_Witness ==
    /\ pc = "done"
    /\ probe_calls = 1
    /\ loop_decodes = max_frames
    /\ submitted = {"data"}

\* C10: at the start of every loop iteration the decoded frame, the
\* temporary frame, the hardware frame and the output packet are all
\* unreferenced; the decoded frame is unreferenced after the probe.
C10_FreshIteration ==
    /\ pc = "loop_decode" =>
           /\ frame = EmptyFrame
           /\ temp = EmptyFrame
           /\ hw_frame = EmptyFrame
           /\ out_pkt = "empty"
    /\ pc \in {"frame_ctx", "frame_ctx_init", "alloc_encoder", "open_encoder",
               "loop_start"} => frame = EmptyFrame

C10_Witness ==
    /\ pc = "loop_decode"
    /\ i = max_frames - 1
    /\ transfers = i
    /\ failed = "receive_packet"

====
